---- MODULE Spec2Model ----
(***************************************************************************)
(* Model of the streaming core of dverf (src/dverf/src/lib.rs): the        *)
(* receive engine (Device::poll_next) and the transmit engine              *)
(* (Device::start_send, poll_ready, poll_flush, poll_completion,           *)
(* submit_or_enqueue) over two bounded asynchronous transfer queues.       *)
(*                                                                         *)
(* A transfer queue (nusb Queue) is a FIFO of submitted transfers;         *)
(* pending() is its length, submit() appends, poll_next() returns the      *)
(* completion of the oldest transfer once the hardware has finished it.    *)
(* TRANSFER_SIZE is scaled down to 2 * SamplesPerTransfer bytes (262144 in *)
(* the source) so that buffers fill within the explored depth.             *)
(*                                                                         *)
(* Beside the streaming core: the sample/byte conversions of lib.rs and    *)
(* common.rs, the control operations of Device (one vendor request each,   *)
(* answered by the device), and the receive path of the dverf_device       *)
(* crate.                                                                  *)
(***************************************************************************)
EXTENDS Integers, Sequences, FiniteSets, TLC

\* ------------------------------------------------------------- constants
TRANSFER_COUNT == 4

\* samples that fit one transfer buffer (131072 in the source)
SamplesPerTransfer == 2

TRANSFER_SIZE == 2 * SamplesPerTransfer

\* longest chunk, in samples, one accept call is given
MaxChunk == 5

\* samples accepted over one behaviour
MaxAccepted == 9

\* receive transfers the hardware finishes over one behaviour
MaxRxDone == 5

\* where both directions run interleaved: the samples accepted (one more than fills
\* the window with the shortest buffers) and the receive transfers finished
BothAccepted == TRANSFER_COUNT + 2

BothRxDone == 1

VARIABLES
    bulk_in,          \* receive queue: <<[st, data], ...>>, oldest first
    bulk_out,         \* transmit queue: <<[st, data], ...>>, oldest first
    current_buffer,   \* staging buffer (bytes)
    free_buffers,     \* free pool: a stack of buffers
    pending_buffers,  \* backlog FIFO of packed buffers
    panicked,         \* the process aborted on a failed assertion / panic
    accepted,         \* history: every byte taken by start_send, in order
    submitted,        \* history: every buffer handed to bulk_out.submit, in order
    txFailed,         \* history: some transmit transfer completed with a failure
    flushed,          \* history: poll_flush returned Ok and no start_send since
    rxHw,             \* history: every receive completion of the hardware, in order
    delivered,        \* history: every sample batch poll_next returned, in order
    last,             \* the last step taken and what it returned
    wire,             \* control requests the last control operation put on the bus
    ctl,              \* the last control operation: its arguments, the device's
                      \* response and what the operation returned
    codec,            \* a byte buffer taken through the sample/byte codec
    caller            \* the task driving the sink: the call it is inside, whether
                      \* its waker is registered with the transmit queue, whether
                      \* it has been woken and will poll

txvars == <<bulk_out, current_buffer, free_buffers, pending_buffers,
            accepted, submitted, txFailed, flushed>>
rxvars == <<bulk_in, rxHw, delivered>>
ctlvars == <<wire, ctl>>
vars == <<bulk_in, bulk_out, current_buffer, free_buffers, pending_buffers, panicked,
          accepted, submitted, txFailed, flushed, rxHw, delivered, last, wire, ctl,
          codec, caller>>

\* ------------------------------------------------------------- helpers
RECURSIVE Flatten(_)
Flatten(bufs) == IF bufs = <<>> THEN <<>> ELSE Head(bufs) \o Flatten(Tail(bufs))

\* an i8 seen as the byte that stores it (two's complement), and back
I8ToByte(x) == IF x < 0 THEN x + 256 ELSE x

ByteToI8(b) == IF b >= 128 THEN b - 256 ELSE b

\* mutant: the byte view has the length of the sample slice (len for len * 2)
samples_as_bytes_len(slice) ==
    [j \in 1..Len(slice) |->
        I8ToByte(slice[(j + 1) \div 2][IF j % 2 = 1 THEN 1 ELSE 2])]

\* Sample(Complex<i8>): <<re, im>>
samples_as_bytes(slice) ==
    [j \in 1..(Len(slice) * 2) |->
        I8ToByte(slice[(j + 1) \div 2][IF j % 2 = 1 THEN 1 ELSE 2])]

\* mutant: the two components of every sample are exchanged
bytes_into_samples_swapped(vec) ==
    IF Len(vec) % 2 # 0
    THEN [panic |-> TRUE, val |-> <<>>]
    ELSE [panic |-> FALSE,
          val |-> [k \in 1..(Len(vec) \div 2) |->
                      <<ByteToI8(vec[2 * k]), ByteToI8(vec[2 * k - 1])>>]]

\* panics on an odd length; otherwise the same bytes seen as len/2 samples
bytes_into_samples(vec) ==
    IF Len(vec) % 2 # 0
    THEN [panic |-> TRUE, val |-> <<>>]
    ELSE [panic |-> FALSE,
          val |-> [k \in 1..(Len(vec) \div 2) |->
                      <<ByteToI8(vec[2 * k - 1]), ByteToI8(vec[2 * k])>>]]

\* the queue of nusb: pending() and submit()
QueuePending(q) == Len(q)

QueueSubmit(q, buf) == Append(q, [st |-> "inflight", data |-> buf])

\* ResponseBuffer::reuse(): the allocation of a finished transfer, with length 0
Reuse(data) == <<>>

\* index of the oldest transfer the hardware has not finished, 0 if none
OldestInflight(q) ==
    IF \E i \in 1..Len(q) : q[i].st = "inflight"
    THEN CHOOSE i \in 1..Len(q) :
            /\ q[i].st = "inflight"
            /\ \A j \in 1..(i - 1) : q[j].st # "inflight"
    ELSE 0

\* ------------------------------------------------------------- transmit
\* the transmit fields of Device as one record
TxState ==
    [cur |-> current_buffer, free |-> free_buffers, pend |-> pending_buffers,
     out |-> bulk_out, sub |-> submitted]

\* mutant: hands every buffer to the queue, whatever the window holds
submit_or_enqueue_always(d) ==
    LET hasFree == d.free # <<>>
        replace_buffer == IF hasFree THEN d.free[Len(d.free)] ELSE <<>>
        free1 == IF hasFree THEN SubSeq(d.free, 1, Len(d.free) - 1) ELSE d.free
    IN  [d EXCEPT !.cur = replace_buffer, !.free = free1,
                  !.out = QueueSubmit(@, d.cur), !.sub = Append(@, d.cur)]

\* mutant: the replacement staging buffer is always a fresh one
submit_or_enqueue_allocates(d) ==
    LET buf == d.cur
        d1 == [d EXCEPT !.cur = <<>>]
    IN  IF QueuePending(d.out) = TRANSFER_COUNT
        THEN [d1 EXCEPT !.pend = Append(@, buf)]
        ELSE [d1 EXCEPT !.out = QueueSubmit(@, buf), !.sub = Append(@, buf)]

submit_or_enqueue(d) ==
    LET hasFree == d.free # <<>>
        replace_buffer == IF hasFree THEN d.free[Len(d.free)] ELSE <<>>
        free1 == IF hasFree THEN SubSeq(d.free, 1, Len(d.free) - 1) ELSE d.free
        buf == d.cur
        d1 == [d EXCEPT !.cur = replace_buffer, !.free = free1]
    IN  IF QueuePending(d.out) = TRANSFER_COUNT
        THEN [d1 EXCEPT !.pend = Append(@, buf)]
        ELSE [d1 EXCEPT !.out = QueueSubmit(@, buf), !.sub = Append(@, buf)]

\* the Ordering::Greater arm: push byte by byte, hand over each full buffer
RECURSIVE PushBytes(_, _)
PushBytes(d, bytes) ==
    IF bytes = <<>>
    THEN d
    ELSE LET d1 == [d EXCEPT !.cur = Append(@, Head(bytes))]
             d2 == IF Len(d1.cur) = TRANSFER_SIZE THEN submit_or_enqueue(d1) ELSE d1
         IN  PushBytes(d2, Tail(bytes))

\* mutant: the assertion is missing
start_send_asserts_nothing(d) == TRUE

\* the assertion start_send makes before it touches anything
start_send_asserts(d) == QueuePending(d.out) < TRANSFER_COUNT

\* mutant: a chunk that does not fill the staging buffer is handed over at once
start_send_splits_short(d, chunk) ==
    LET bytes == samples_as_bytes(chunk)
        required == TRANSFER_SIZE - Len(d.cur)
    IN  IF Len(bytes) <= required
        THEN submit_or_enqueue([d EXCEPT !.cur = @ \o bytes])
        ELSE PushBytes(d, bytes)

\* mutant: a chunk that fills the staging buffer exactly is only appended
start_send_keeps_full(d, chunk) ==
    LET bytes == samples_as_bytes(chunk)
        required == TRANSFER_SIZE - Len(d.cur)
    IN  IF Len(bytes) <= required
        THEN [d EXCEPT !.cur = @ \o bytes]
        ELSE PushBytes(d, bytes)

\* start_send after its assertion
start_send(d, chunk) ==
    LET bytes == samples_as_bytes(chunk)
        required == TRANSFER_SIZE - Len(d.cur)
    IN  IF Len(bytes) < required
        THEN [d EXCEPT !.cur = @ \o bytes]
        ELSE IF Len(bytes) = required
        THEN submit_or_enqueue([d EXCEPT !.cur = @ \o bytes])
        ELSE PushBytes(d, bytes)

\* result of a poll: the new fields, Ready(Ok) / Ready(Err) / Pending, the number of
\* completions taken from the queue, and whether the waker was woken
\* mutant: the backlog is drained from its back (pop_back for pop_front)
poll_completion_lifo(d) ==
    IF QueuePending(d.out) = 0
    THEN [d |-> d, res |-> "ok", took |-> 0, woke |-> FALSE]
    ELSE IF d.out[1].st = "inflight"
    THEN [d |-> d, res |-> "pending", took |-> 0, woke |-> FALSE]
    ELSE LET c == d.out[1]
             d1 == [d EXCEPT !.out = Tail(@)]
         IN  IF c.st = "err"
             THEN [d |-> d1, res |-> "err", took |-> 1, woke |-> FALSE]
             ELSE LET d2 == [d1 EXCEPT !.free = Append(@, Reuse(c.data))]
                      n == Len(d2.pend)
                  IN  IF d2.pend # <<>>
                      THEN [d |-> [d2 EXCEPT !.pend = SubSeq(@, 1, n - 1),
                                             !.out = QueueSubmit(@, d2.pend[n]),
                                             !.sub = Append(@, d2.pend[n])],
                            res |-> "pending", took |-> 1, woke |-> TRUE]
                      ELSE [d |-> d2, res |-> "ok", took |-> 1, woke |-> FALSE]

\* mutant: a reclaimed buffer keeps the bytes of its transfer
poll_completion_keeps_bytes(d) ==
    IF QueuePending(d.out) = 0
    THEN [d |-> d, res |-> "ok", took |-> 0, woke |-> FALSE]
    ELSE IF d.out[1].st = "inflight"
    THEN [d |-> d, res |-> "pending", took |-> 0, woke |-> FALSE]
    ELSE LET c == d.out[1]
             d1 == [d EXCEPT !.out = Tail(@)]
         IN  IF c.st = "err"
             THEN [d |-> d1, res |-> "err", took |-> 1, woke |-> FALSE]
             ELSE LET d2 == [d1 EXCEPT !.free = Append(@, c.data)]
                  IN  IF d2.pend # <<>>
                      THEN [d |-> [d2 EXCEPT !.pend = Tail(@),
                                             !.out = QueueSubmit(@, Head(d2.pend)),
                                             !.sub = Append(@, Head(d2.pend))],
                            res |-> "pending", took |-> 1, woke |-> TRUE]
                      ELSE [d |-> d2, res |-> "ok", took |-> 1, woke |-> FALSE]

\* mutant: a failed transfer is submitted again
poll_completion_retries(d) ==
    IF QueuePending(d.out) = 0
    THEN [d |-> d, res |-> "ok", took |-> 0, woke |-> FALSE]
    ELSE IF d.out[1].st = "inflight"
    THEN [d |-> d, res |-> "pending", took |-> 0, woke |-> FALSE]
    ELSE LET c == d.out[1]
             d1 == [d EXCEPT !.out = Tail(@)]
         IN  IF c.st = "err"
             THEN [d |-> [d1 EXCEPT !.out = QueueSubmit(@, c.data)],
                   res |-> "err", took |-> 1, woke |-> FALSE]
             ELSE LET d2 == [d1 EXCEPT !.free = Append(@, Reuse(c.data))]
                  IN  IF d2.pend # <<>>
                      THEN [d |-> [d2 EXCEPT !.pend = Tail(@),
                                             !.out = QueueSubmit(@, Head(d2.pend)),
                                             !.sub = Append(@, Head(d2.pend))],
                            res |-> "pending", took |-> 1, woke |-> TRUE]
                      ELSE [d |-> d2, res |-> "ok", took |-> 1, woke |-> FALSE]

\* mutant: the backlog head is submitted without waking the poller
poll_completion_no_wake(d) ==
    IF QueuePending(d.out) = 0
    THEN [d |-> d, res |-> "ok", took |-> 0, woke |-> FALSE]
    ELSE IF d.out[1].st = "inflight"
    THEN [d |-> d, res |-> "pending", took |-> 0, woke |-> FALSE]
    ELSE LET c == d.out[1]
             d1 == [d EXCEPT !.out = Tail(@)]
         IN  IF c.st = "err"
             THEN [d |-> d1, res |-> "err", took |-> 1, woke |-> FALSE]
             ELSE LET d2 == [d1 EXCEPT !.free = Append(@, Reuse(c.data))]
                  IN  IF d2.pend # <<>>
                      THEN [d |-> [d2 EXCEPT !.pend = Tail(@),
                                             !.out = QueueSubmit(@, Head(d2.pend)),
                                             !.sub = Append(@, Head(d2.pend))],
                            res |-> "pending", took |-> 1, woke |-> FALSE]
                      ELSE [d |-> d2, res |-> "ok", took |-> 1, woke |-> FALSE]

poll_completion(d) ==
    IF QueuePending(d.out) = 0
    THEN [d |-> d, res |-> "ok", took |-> 0, woke |-> FALSE]
    ELSE IF d.out[1].st = "inflight"
    THEN [d |-> d, res |-> "pending", took |-> 0, woke |-> FALSE]
    ELSE LET c == d.out[1]
             d1 == [d EXCEPT !.out = Tail(@)]
         IN  IF c.st = "err"
             THEN [d |-> d1, res |-> "err", took |-> 1, woke |-> FALSE]
             ELSE LET d2 == [d1 EXCEPT !.free = Append(@, Reuse(c.data))]
                  IN  IF d2.pend # <<>>
                      THEN [d |-> [d2 EXCEPT !.pend = Tail(@),
                                             !.out = QueueSubmit(@, Head(d2.pend)),
                                             !.sub = Append(@, Head(d2.pend))],
                            res |-> "pending", took |-> 1, woke |-> TRUE]
                      ELSE [d |-> d2, res |-> "ok", took |-> 1, woke |-> FALSE]

\* mutant: reports readiness without looking at the window
poll_ready_always(d) == [d |-> d, res |-> "ok", took |-> 0, woke |-> FALSE]

poll_ready(d) ==
    IF QueuePending(d.out) < TRANSFER_COUNT
    THEN [d |-> d, res |-> "ok", took |-> 0, woke |-> FALSE]
    ELSE poll_completion(d)

\* mutant: a short staging buffer is not handed over
poll_flush_full_only(d) ==
    LET d1 == IF Len(d.cur) = TRANSFER_SIZE
              THEN submit_or_enqueue(d)
              ELSE d
    IN  poll_completion(d1)

\* mutant: the staging buffer is handed over even when it is empty
poll_flush_also_empty(d) ==
    LET d1 == IF Len(d.cur) < TRANSFER_SIZE
              THEN submit_or_enqueue(d)
              ELSE d
    IN  poll_completion(d1)

poll_flush(d) ==
    LET d1 == IF d.cur # <<>> /\ Len(d.cur) < TRANSFER_SIZE
              THEN submit_or_enqueue(d)
              ELSE d
    IN  poll_completion(d1)

\* the k-th sample a caller hands over: every accepted byte is distinguishable
SampleAt(k) == <<k, 0 - k>>

NextChunk(n) == [i \in 1..n |-> SampleAt((Len(accepted) \div 2) + i)]

SetTx(d) ==
    /\ current_buffer' = d.cur
    /\ free_buffers' = d.free
    /\ pending_buffers' = d.pend
    /\ bulk_out' = d.out
    /\ submitted' = d.sub

LastOf(op, r, d0) ==
    [op |-> op, res |-> r.res, pre |-> QueuePending(d0.out), took |-> r.took,
     subm |-> Len(r.d.sub) - Len(d0.sub)]

\* Sink::poll_ready
TxPollReady ==
    /\ ~panicked
    /\ LET r == poll_ready(TxState)
       IN  /\ SetTx(r.d)
           /\ last' = LastOf("ready", r, TxState)
    /\ UNCHANGED <<accepted, txFailed, flushed, panicked, rxvars, ctlvars, codec, caller>>

\* Sink::start_send: the assertion first, then the packing; always returns Ok(())
StartSendOf(limit, sizes) ==
    /\ ~panicked
    /\ \E n \in sizes :
        /\ (Len(accepted) \div 2) + n <= limit
        /\ IF start_send_asserts(TxState)
           THEN LET d == start_send(TxState, NextChunk(n))
                IN  /\ SetTx(d)
                    /\ accepted' = accepted \o samples_as_bytes(NextChunk(n))
                    /\ flushed' = FALSE
                    /\ panicked' = FALSE
                    /\ last' = LastOf("accept", [d |-> d, res |-> "ok", took |-> 0],
                                        TxState)
           ELSE /\ panicked' = TRUE
                /\ last' = LastOf("accept", [d |-> TxState, res |-> "panic", took |-> 0],
                                    TxState)
                /\ UNCHANGED <<bulk_out, current_buffer, free_buffers, pending_buffers,
                               accepted, submitted, flushed>>
    /\ UNCHANGED <<txFailed, rxvars, ctlvars, codec, caller>>

StartSendUpTo(limit) == StartSendOf(limit, 0..MaxChunk)

TxStartSend == StartSendUpTo(MaxAccepted)

\* Sink::poll_flush
TxPollFlush ==
    /\ ~panicked
    /\ LET r == poll_flush(TxState)
       IN  /\ SetTx(r.d)
           /\ last' = LastOf("flush", r, TxState)
           /\ flushed' = IF r.res = "ok" THEN TRUE ELSE flushed
    /\ UNCHANGED <<accepted, txFailed, panicked, rxvars, ctlvars, codec, caller>>

\* mutant: close flushes and reports what the flush reports
poll_close_flushes(d) == poll_flush(d)

\* Sink::poll_close: panics before it touches anything
poll_close(d) == [d |-> d, res |-> "panic", took |-> 0, woke |-> FALSE]

\* Sink::poll_close
TxPollClose ==
    /\ ~panicked
    /\ LET r == poll_close(TxState)
       IN  /\ SetTx(r.d)
           /\ last' = LastOf("close", r, TxState)
           /\ panicked' = (r.res = "panic")
    /\ UNCHANGED <<accepted, txFailed, flushed, rxvars, ctlvars, codec, caller>>

HwStep == [op |-> "hw", res |-> "none", pre |-> 0, took |-> 0, subm |-> 0]

\* the hardware finishes the oldest unfinished transmit transfer
TxHwOk ==
    /\ ~panicked
    /\ OldestInflight(bulk_out) # 0
    /\ bulk_out' = [bulk_out EXCEPT ![OldestInflight(bulk_out)].st = "ok"]
    /\ last' = HwStep
    /\ UNCHANGED <<current_buffer, free_buffers, pending_buffers, accepted, submitted,
                   txFailed, flushed, panicked, rxvars, ctlvars, codec, caller>>

\* ... or fails it (stall, disconnect, cancellation)
TxHwErr ==
    /\ ~panicked
    /\ OldestInflight(bulk_out) # 0
    /\ bulk_out' = [bulk_out EXCEPT ![OldestInflight(bulk_out)].st = "err"]
    /\ txFailed' = TRUE
    /\ last' = HwStep
    /\ UNCHANGED <<current_buffer, free_buffers, pending_buffers, accepted, submitted,
                   flushed, panicked, rxvars, ctlvars, codec, caller>>

NextTx == TxPollReady \/ TxStartSend \/ TxPollFlush \/ TxPollClose \/ TxHwOk \/ TxHwErr

\* ------------------------------------------------------------- receive
\* the while loop of poll_next: submit fresh requests until the window is full
RECURSIVE TopUp(_)
TopUp(q) ==
    IF QueuePending(q) < TRANSFER_COUNT THEN TopUp(QueueSubmit(q, <<>>)) ELSE q

\* result of a receive poll: the queue, what the poll returned ("pending", "batch" for
\* Some(Ok(samples)), "err" for Some(Err(_)), "end" for None, "panic"), and the batch
\* mutant: a failed completion ends the stream (None)
poll_next_ends(q) ==
    LET q1 == TopUp(q)
    IN  IF q1[1].st = "inflight"
        THEN [q |-> q1, res |-> "pending", batch |-> <<>>]
        ELSE LET completion == q1[1]
                 q2 == Tail(q1)
             IN  IF completion.st = "err"
                 THEN [q |-> q2, res |-> "end", batch |-> <<>>]
                 ELSE LET q3 == QueueSubmit(q2, <<>>)
                          samples == bytes_into_samples(completion.data)
                      IN  IF samples.panic
                          THEN [q |-> q3, res |-> "panic", batch |-> <<>>]
                          ELSE [q |-> q3, res |-> "batch", batch |-> samples.val]

\* mutant: the buffer of a delivered completion is not resubmitted
poll_next_no_resubmit(q) ==
    LET q1 == TopUp(q)
    IN  IF q1[1].st = "inflight"
        THEN [q |-> q1, res |-> "pending", batch |-> <<>>]
        ELSE LET completion == q1[1]
                 q2 == Tail(q1)
             IN  IF completion.st = "err"
                 THEN [q |-> q2, res |-> "err", batch |-> <<>>]
                 ELSE LET samples == bytes_into_samples(completion.data)
                      IN  IF samples.panic
                          THEN [q |-> q2, res |-> "panic", batch |-> <<>>]
                          ELSE [q |-> q2, res |-> "batch", batch |-> samples.val]

poll_next(q) ==
    LET q1 == TopUp(q)
    IN  IF q1[1].st = "inflight"
        THEN [q |-> q1, res |-> "pending", batch |-> <<>>]
        ELSE LET completion == q1[1]
                 q2 == Tail(q1)
             IN  IF completion.st = "err"
                 THEN [q |-> q2, res |-> "err", batch |-> <<>>]
                 ELSE LET q3 == QueueSubmit(q2, <<>>)
                          samples == bytes_into_samples(completion.data)
                      IN  IF samples.panic
                          THEN [q |-> q3, res |-> "panic", batch |-> <<>>]
                          ELSE [q |-> q3, res |-> "batch", batch |-> samples.val]

\* mutant: the receive poll puts the buffer it took into the transmit free pool
RxPollNext_recycles ==
    /\ ~panicked
    /\ LET r == poll_next(bulk_in)
       IN  /\ bulk_in' = r.q
           /\ delivered' = IF r.res = "batch" THEN Append(delivered, r.batch) ELSE delivered
           /\ free_buffers' = IF r.res = "batch" THEN Append(free_buffers, <<>>)
                              ELSE free_buffers
           /\ panicked' = (r.res = "panic")
           /\ last' = [op |-> "poll", res |-> r.res, pre |-> QueuePending(bulk_in),
                      took |-> IF r.res \in {"batch", "err", "panic"} THEN 1 ELSE 0,
                      subm |-> 0]
    /\ UNCHANGED <<rxHw, bulk_out, current_buffer, pending_buffers, accepted, submitted,
                   txFailed, flushed, ctlvars, codec, caller>>

\* Stream::poll_next
RxPollNext ==
    /\ ~panicked
    /\ LET r == poll_next(bulk_in)
       IN  /\ bulk_in' = r.q
           /\ delivered' = IF r.res = "batch" THEN Append(delivered, r.batch) ELSE delivered
           /\ panicked' = (r.res = "panic")
           /\ last' = [op |-> "poll", res |-> r.res, pre |-> QueuePending(bulk_in),
                      took |-> IF r.res \in {"batch", "err", "panic"} THEN 1 ELSE 0,
                      subm |-> 0]
    /\ UNCHANGED <<rxHw, txvars, ctlvars, codec, caller>>

\* lengths a finished receive transfer may have: empty, odd, full
RxLens == {0, 1, TRANSFER_SIZE}

\* the i-th byte of the n-th finished receive transfer: distinguishable, both signs
RxByte(n, i) == (83 * n + 41 * i) % 256

RxBytes(n, len) == [i \in 1..len |-> RxByte(n, i)]

\* the hardware finishes the oldest unfinished receive transfer with some data
RxHwOkUpTo(limit, lens) ==
    /\ ~panicked
    /\ OldestInflight(bulk_in) # 0
    /\ Len(rxHw) < limit
    /\ \E len \in lens :
        LET c == [st |-> "ok", data |-> RxBytes(Len(rxHw) + 1, len)]
        IN  /\ bulk_in' = [bulk_in EXCEPT ![OldestInflight(bulk_in)] = c]
            /\ rxHw' = Append(rxHw, c)
    /\ last' = HwStep
    /\ UNCHANGED <<delivered, panicked, txvars, ctlvars, codec, caller>>

RxHwOk == RxHwOkUpTo(MaxRxDone, RxLens)

\* ... or fails it
RxHwErrUpTo(limit) ==
    /\ ~panicked
    /\ OldestInflight(bulk_in) # 0
    /\ Len(rxHw) < limit
    /\ LET c == [st |-> "err", data |-> <<>>]
       IN  /\ bulk_in' = [bulk_in EXCEPT ![OldestInflight(bulk_in)] = c]
           /\ rxHw' = Append(rxHw, c)
    /\ last' = HwStep
    /\ UNCHANGED <<delivered, panicked, txvars, ctlvars, codec, caller>>

RxHwErr == RxHwErrUpTo(MaxRxDone)

NextRx == RxPollNext \/ RxHwOk \/ RxHwErr

\* ------------------------------------------------------------- receive, dverf_device
\* the receive path of the dverf_device crate (Sample { i: u8, q: u8 }); its window
\* constant lives in consts.rs
TRANSFERS_NUM == TRANSFER_COUNT

RECURSIVE DeviceTopUp(_)
DeviceTopUp(q) ==
    IF QueuePending(q) < TRANSFERS_NUM THEN DeviceTopUp(QueueSubmit(q, <<>>)) ELSE q

\* dverf_device::Device::poll_next: the completed buffer is reinterpreted in place
\* as data.len() / 2 samples, with no check of the length
device_poll_next(q) ==
    LET q1 == DeviceTopUp(q)
    IN  IF q1[1].st = "inflight"
        THEN [q |-> q1, res |-> "pending", batch |-> <<>>]
        ELSE LET completion == q1[1]
                 q2 == Tail(q1)
             IN  IF completion.st = "err"
                 THEN [q |-> q2, res |-> "err", batch |-> <<>>]
                 ELSE LET data == completion.data
                          len == Len(data) \div 2
                          chunk == [k \in 1..len |-> <<data[2 * k - 1], data[2 * k]>>]
                          q3 == QueueSubmit(q2, <<>>)
                      IN  [q |-> q3, res |-> "batch", batch |-> chunk]

\* Stream::poll_next of dverf_device
DeviceRxPollNext ==
    /\ ~panicked
    /\ LET r == device_poll_next(bulk_in)
       IN  /\ bulk_in' = r.q
           /\ delivered' = IF r.res = "batch" THEN Append(delivered, r.batch) ELSE delivered
           /\ panicked' = (r.res = "panic")
           /\ last' = [op |-> "poll", res |-> r.res, pre |-> QueuePending(bulk_in),
                      took |-> IF r.res \in {"batch", "err", "panic"} THEN 1 ELSE 0,
                      subm |-> 0]
    /\ UNCHANGED <<rxHw, txvars, ctlvars, codec, caller>>

NextRxDevice == DeviceRxPollNext \/ RxHwOk \/ RxHwErr

\* ------------------------------------------------------------- codec
\* longest byte buffer taken through the codec
MaxCodecLen == 4

\* byte values of the buffers: both ends and both sides of the sign bit
CodecByteValues == {0, 1, 127, 128, 255}

RECURSIVE SeqsUpTo(_, _)
SeqsUpTo(S, n) ==
    IF n = 0
    THEN {<<>>}
    ELSE LET shorter == SeqsUpTo(S, n - 1)
         IN  shorter \cup {Append(q, x) : q \in {r \in shorter : Len(r) = n - 1}, x \in S}

CodecInputs == SeqsUpTo(CodecByteValues, MaxCodecLen)

\* internals::bytes_as_samples: the borrowed form of bytes_into_samples
bytes_as_samples(slice) ==
    IF Len(slice) % 2 # 0
    THEN [panic |-> TRUE, val |-> <<>>]
    ELSE [panic |-> FALSE,
          val |-> [k \in 1..(Len(slice) \div 2) |->
                      <<ByteToI8(slice[2 * k - 1]), ByteToI8(slice[2 * k])>>]]

\* internals::bytes_to_samples: bytes_as_samples, copied
bytes_to_samples(slice) == bytes_as_samples(slice)

\* common.rs, Sample { i: u8, q: u8 }: BytesAsSamples::as_samples
as_samples(slice) ==
    LET len == Len(slice)
    IN  IF len % 2 # 0
        THEN [panic |-> TRUE, val |-> <<>>]
        ELSE [panic |-> FALSE,
              val |-> [k \in 1..(len \div 2) |-> <<slice[2 * k - 1], slice[2 * k]>>]]

\* common.rs: BytesIntoSamples::into_samples
into_samples(this) ==
    LET len == Len(this)
    IN  IF len % 2 # 0
        THEN [panic |-> TRUE, val |-> <<>>]
        ELSE [panic |-> FALSE,
              val |-> [k \in 1..(len \div 2) |-> <<this[2 * k - 1], this[2 * k]>>]]

\* common.rs: BytesToSamples::to_samples
to_samples(slice) == into_samples(slice)

\* common.rs: SamplesAsBytes::as_bytes
as_bytes(slice) ==
    LET len == Len(slice)
    IN  [j \in 1..(len * 2) |-> slice[(j + 1) \div 2][IF j % 2 = 1 THEN 1 ELSE 2]]

\* the conversions to samples of lib.rs (Sample(Complex<i8>)); the others are those of
\* common.rs
InternalsFns == {"bytes_into_samples", "bytes_as_samples", "bytes_to_samples"}

NoCodec == [back |-> <<>>, bytes |-> <<>>, fn |-> "none", pc |-> "idle", samples |-> <<>>]

\* a byte buffer is converted to samples by the conversion named fn, which gives r
CodecToSamples(fn, r) ==
    /\ codec.pc = "bytes"
    /\ codec' = [codec EXCEPT !.pc = IF r.panic THEN "panic" ELSE "samples",
                              !.fn = fn,
                              !.samples = r.val]
    /\ UNCHANGED <<txvars, rxvars, ctlvars, panicked, last, caller>>

CodecBytesIntoSamples ==
    CodecToSamples("bytes_into_samples", bytes_into_samples(codec.bytes))

CodecBytesAsSamples == CodecToSamples("bytes_as_samples", bytes_as_samples(codec.bytes))

CodecBytesToSamples == CodecToSamples("bytes_to_samples", bytes_to_samples(codec.bytes))

CodecAsSamples == CodecToSamples("as_samples", as_samples(codec.bytes))

CodecIntoSamples == CodecToSamples("into_samples", into_samples(codec.bytes))

CodecToSamplesCopy == CodecToSamples("to_samples", to_samples(codec.bytes))

\* the samples are converted back to bytes by the conversion of the same file
CodecSamplesAsBytes ==
    /\ codec.pc = "samples"
    /\ codec.fn \in InternalsFns
    /\ codec' = [codec EXCEPT !.pc = "done", !.back = samples_as_bytes(codec.samples)]
    /\ UNCHANGED <<txvars, rxvars, ctlvars, panicked, last, caller>>

CodecAsBytes ==
    /\ codec.pc = "samples"
    /\ codec.fn \notin InternalsFns
    /\ codec' = [codec EXCEPT !.pc = "done", !.back = as_bytes(codec.samples)]
    /\ UNCHANGED <<txvars, rxvars, ctlvars, panicked, last, caller>>

NextCodec ==
    \/ CodecBytesIntoSamples
    \/ CodecBytesAsSamples
    \/ CodecBytesToSamples
    \/ CodecAsSamples
    \/ CodecIntoSamples
    \/ CodecToSamplesCopy
    \/ CodecSamplesAsBytes
    \/ CodecAsBytes

\* ------------------------------------------------------------- control
\* the request codes the operations use (#[repr(u8)] enum VendorRequest)
VendorRequest ==
    [SetTransceiverMode |-> 1, SetSampleRate |-> 6, SetBasebandFilterBandwidth |-> 7,
     BoardIdRead |-> 14, VersionStringRead |-> 15, SetFreq |-> 16, AmpEnable |-> 17,
     SetLnaGain |-> 19, SetVgaGain |-> 20, Reset |-> 30, BoardRevRead |-> 45]

\* #[repr(u16)] enum TransceiverMode: Off .. RxSweep
TransceiverMode == 0..5

\* `as u16`
AsU16(x) == x % 65536

\* mutant: most significant byte first
to_be_bytes(x) == [i \in 1..4 |-> (x \div (256 ^ (4 - i))) % 256]

\* u32::to_le_bytes
to_le_bytes(x) == [i \in 1..4 |-> (x \div (256 ^ (i - 1))) % 256]

\* Result<T, Error>
Ok(v) == [tag |-> "Ok", val |-> v]

ErrTransfer == [tag |-> "Transfer", val |-> <<>>]

ErrResp == [tag |-> "Resp", val |-> <<>>]

ErrParam(name) == [tag |-> "Param", val |-> name]

\* mutant: the status of the transfer is not looked at
control_in_ignores_status(vrid, index, value, length, resp) ==
    [reqs |-> <<[data |-> <<>>, dir |-> "IN", index |-> index, length |-> length,
                 request |-> vrid, value |-> value]>>,
     res |-> Ok(resp.data)]

\* one IN vendor request; resp is what the device answers: [status, data]
control_in(vrid, index, value, length, resp) ==
    [reqs |-> <<[data |-> <<>>, dir |-> "IN", index |-> index, length |-> length,
                 request |-> vrid, value |-> value]>>,
     res |-> IF resp.status = "err" THEN ErrTransfer ELSE Ok(resp.data)]

\* one OUT vendor request carrying data
control_out(vrid, index, value, data, resp) ==
    [reqs |-> <<[data |-> data, dir |-> "OUT", index |-> index, length |-> Len(data),
                 request |-> vrid, value |-> value]>>,
     res |-> IF resp.status = "err" THEN ErrTransfer ELSE Ok(<<>>)]

\* From<u8> of #[derive(FromPrimitive)]: the variant with that discriminant, else the
\* unit variant marked #[num_enum(default)]
BoardIdFrom(b) ==
    CASE b = 0 -> "Jellybean"
      [] b = 1 -> "Jawbreaker"
      [] b = 2 -> "HackrfOneOg"
      [] b = 3 -> "Rad10"
      [] b = 4 -> "HackrfOneR9"
      [] OTHER -> "Unrecognized"

BoardRevFrom(b) ==
    CASE b = 0 -> "Old"
      [] b = 1 -> "R6"
      [] b = 2 -> "R7"
      [] b = 3 -> "R8"
      [] b = 4 -> "R9"
      [] b = 5 -> "R10"
      [] b = 129 -> "GsgR6"
      [] b = 130 -> "GsgR7"
      [] b = 131 -> "GsgR8"
      [] b = 132 -> "GsgR9"
      [] b = 133 -> "GsgR10"
      [] OTHER -> "Unrecognized"

\* String::from_utf8_lossy on bytes that are ASCII or start no UTF-8 sequence: each
\* of the latter becomes U+FFFD
from_utf8_lossy(bytes) ==
    [i \in 1..Len(bytes) |-> IF bytes[i] < 128 THEN bytes[i] ELSE 65533]

reset(resp) == control_out(VendorRequest.Reset, 0, 0, <<>>, resp)

board_id(resp) ==
    LET r == control_in(VendorRequest.BoardIdRead, 0, 0, 1, resp)
    IN  IF r.res.tag # "Ok" THEN r
        ELSE IF r.res.val = <<>> THEN [r EXCEPT !.res = ErrResp]
        ELSE [r EXCEPT !.res = Ok(BoardIdFrom(Head(r.res.val)))]

\* mutant: the revision is asked for with the request code of the identifier
board_rev_reads_id(resp) ==
    LET r == control_in(VendorRequest.BoardIdRead, 0, 0, 1, resp)
    IN  IF r.res.tag # "Ok" THEN r
        ELSE IF r.res.val = <<>> THEN [r EXCEPT !.res = ErrResp]
        ELSE [r EXCEPT !.res = Ok(BoardRevFrom(Head(r.res.val)))]

board_rev(resp) ==
    LET r == control_in(VendorRequest.BoardRevRead, 0, 0, 1, resp)
    IN  IF r.res.tag # "Ok" THEN r
        ELSE IF r.res.val = <<>> THEN [r EXCEPT !.res = ErrResp]
        ELSE [r EXCEPT !.res = Ok(BoardRevFrom(Head(r.res.val)))]

version(resp) ==
    LET r == control_in(VendorRequest.VersionStringRead, 0, 0, 255, resp)
    IN  IF r.res.tag # "Ok" THEN r
        ELSE [r EXCEPT !.res = Ok(from_utf8_lossy(r.res.val))]

set_transceiver_mode(mode, resp) ==
    LET r == control_in(VendorRequest.SetTransceiverMode, 0, mode, 0, resp)
    IN  IF r.res.tag # "Ok" THEN r ELSE [r EXCEPT !.res = Ok(<<>>)]

set_freq(mhz, hz, resp) ==
    LET data == to_le_bytes(mhz) \o to_le_bytes(hz)
    IN  control_out(VendorRequest.SetFreq, 0, 0, data, resp)

\* mutant: hz is cut to 16 bits before it is shifted
set_baseband_filter_bandwidth_cast_first(hz, resp) ==
    control_out(VendorRequest.SetBasebandFilterBandwidth,
                AsU16(hz) \div 65536, AsU16(hz % 65536), <<>>, resp)

\* mutant: the two halves of hz change places
set_baseband_filter_bandwidth_swapped(hz, resp) ==
    control_out(VendorRequest.SetBasebandFilterBandwidth,
                AsU16(hz % 65536), AsU16(hz \div 65536), <<>>, resp)

set_baseband_filter_bandwidth(hz, resp) ==
    control_out(VendorRequest.SetBasebandFilterBandwidth,
                AsU16(hz \div 65536), AsU16(hz % 65536), <<>>, resp)

set_sample_rate(hz, divider, resp) ==
    LET data == to_le_bytes(hz) \o to_le_bytes(divider)
    IN  control_out(VendorRequest.SetSampleRate, 0, 0, data, resp)

\* mutant: the gain travels in the value field
set_lna_gain_in_value(value, resp) ==
    LET r == control_in(VendorRequest.SetLnaGain, 0, value, 1, resp)
    IN  IF r.res.tag # "Ok" THEN r
        ELSE IF r.res.val = <<>> THEN [r EXCEPT !.res = ErrResp]
        ELSE IF Head(r.res.val) = 1 THEN [r EXCEPT !.res = Ok(<<>>)]
        ELSE [r EXCEPT !.res = ErrParam("Lna Gain")]

\* control_in's third parameter is the index: the gain is passed there, 0 as value
set_lna_gain(value, resp) ==
    LET r == control_in(VendorRequest.SetLnaGain, value, 0, 1, resp)
    IN  IF r.res.tag # "Ok" THEN r
        ELSE IF r.res.val = <<>> THEN [r EXCEPT !.res = ErrResp]
        ELSE IF Head(r.res.val) = 1 THEN [r EXCEPT !.res = Ok(<<>>)]
        ELSE [r EXCEPT !.res = ErrParam("Lna Gain")]

\* mutant: the rejection names the other gain
set_vga_gain_names_lna(value, resp) ==
    LET r == control_in(VendorRequest.SetVgaGain, value, 0, 1, resp)
    IN  IF r.res.tag # "Ok" THEN r
        ELSE IF r.res.val = <<>> THEN [r EXCEPT !.res = ErrResp]
        ELSE IF Head(r.res.val) = 1 THEN [r EXCEPT !.res = Ok(<<>>)]
        ELSE [r EXCEPT !.res = ErrParam("Lna Gain")]

set_vga_gain(value, resp) ==
    LET r == control_in(VendorRequest.SetVgaGain, value, 0, 1, resp)
    IN  IF r.res.tag # "Ok" THEN r
        ELSE IF r.res.val = <<>> THEN [r EXCEPT !.res = ErrResp]
        ELSE IF Head(r.res.val) = 1 THEN [r EXCEPT !.res = Ok(<<>>)]
        ELSE [r EXCEPT !.res = ErrParam("Vga Gain")]

\* enable.into(): false 0, true 1
amp_enable(enable, resp) ==
    control_out(VendorRequest.AmpEnable, 0, IF enable THEN 1 ELSE 0, <<>>, resp)

\* what the device may answer: a status, and for an IN request up to `length` bytes
Statuses == {"ok", "err"}

NoData == {[data |-> <<>>, status |-> st] : st \in Statuses}

OneByte ==
    {[data |-> d, status |-> st] : st \in Statuses, d \in {<<>>} \cup {<<b>> : b \in 0..255}}

\* "2024", "", and a reply with a byte that is no UTF-8
VersionData ==
    {[data |-> d, status |-> st] :
        st \in Statuses, d \in {<<>>, <<50, 48, 50, 52>>, <<50, 255, 0>>}}

\* arguments the operations are called with; the largest is 2^31 - 1, the largest
\* integer TLC evaluates
GainValues == {0, 1, 8, 40, 62, 256, 65535}

FreqValues == {<<446, 68750>>, <<2412, 0>>, <<0, 1>>, <<2147483647, 2147483646>>}

BandwidthValues ==
    {0, 65535, 65536, 131071, 1750000, 15000000, 17000000, 2147418112, 2147483647}

SampleRateValues == {<<200000000, 10>>, <<8000000, 1>>, <<2147483647, 0>>}

\* the response of a request the device has not answered yet
Unanswered == [data |-> <<>>, status |-> "none"]

NoCall ==
    [args |-> <<>>, op |-> "none", pc |-> "idle", resp |-> Unanswered,
     result |-> Ok(<<>>)]

InitCtl ==
    /\ wire = <<>>
    /\ ctl = NoCall

\* a control operation: it sends its request and awaits the transfer (pc "await"),
\* then the device answers with one of resps and the operation returns (pc "done");
\* run[resp] is what the operation puts on the bus and what it returns
CtlCall(op, args, resps, run) ==
    /\ \/ /\ ctl.pc # "await"
          /\ wire' = run[Unanswered].reqs
          /\ ctl' = [NoCall EXCEPT !.args = args, !.op = op, !.pc = "await"]
       \/ /\ ctl.pc = "await"
          /\ ctl.op = op
          /\ ctl.args = args
          /\ \E resp \in resps :
                /\ wire' = run[resp].reqs
                /\ ctl' = [ctl EXCEPT !.pc = "done", !.resp = resp,
                                      !.result = run[resp].res]
    /\ UNCHANGED <<txvars, rxvars, codec, panicked, last, caller>>

\* the answers to a request, and none yet
Answers(resps) == resps \cup {Unanswered}

CtlReset == CtlCall("reset", <<>>, NoData, [resp \in Answers(NoData) |-> reset(resp)])

CtlBoardId ==
    CtlCall("board_id", <<>>, OneByte, [resp \in Answers(OneByte) |-> board_id(resp)])

CtlBoardRev ==
    CtlCall("board_rev", <<>>, OneByte, [resp \in Answers(OneByte) |-> board_rev(resp)])

CtlVersion ==
    CtlCall("version", <<>>, VersionData,
            [resp \in Answers(VersionData) |-> version(resp)])

CtlSetTransceiverMode ==
    \E mode \in TransceiverMode :
        CtlCall("set_transceiver_mode", <<mode>>, NoData,
                [resp \in Answers(NoData) |-> set_transceiver_mode(mode, resp)])

CtlSetFreq ==
    \E a \in FreqValues :
        CtlCall("set_freq", a, NoData,
                [resp \in Answers(NoData) |-> set_freq(a[1], a[2], resp)])

CtlSetBasebandFilterBandwidth ==
    \E hz \in BandwidthValues :
        CtlCall("set_baseband_filter_bandwidth", <<hz>>, NoData,
                [resp \in Answers(NoData) |-> set_baseband_filter_bandwidth(hz, resp)])

CtlSetSampleRate ==
    \E a \in SampleRateValues :
        CtlCall("set_sample_rate", a, NoData,
                [resp \in Answers(NoData) |-> set_sample_rate(a[1], a[2], resp)])

CtlSetLnaGain ==
    \E value \in GainValues :
        CtlCall("set_lna_gain", <<value>>, OneByte,
                [resp \in Answers(OneByte) |-> set_lna_gain(value, resp)])

CtlSetVgaGain ==
    \E value \in GainValues :
        CtlCall("set_vga_gain", <<value>>, OneByte,
                [resp \in Answers(OneByte) |-> set_vga_gain(value, resp)])

CtlAmpEnable ==
    \E enable \in BOOLEAN :
        CtlCall("amp_enable", <<IF enable THEN 1 ELSE 0>>, NoData,
                [resp \in Answers(NoData) |-> amp_enable(enable, resp)])

NextCtl ==
    \/ CtlReset
    \/ CtlBoardId
    \/ CtlBoardRev
    \/ CtlVersion
    \/ CtlSetTransceiverMode
    \/ CtlSetFreq
    \/ CtlSetBasebandFilterBandwidth
    \/ CtlSetSampleRate
    \/ CtlSetLnaGain
    \/ CtlSetVgaGain
    \/ CtlAmpEnable

\* ------------------------------------------------------------- transmit, one task
\* A task that awaits ready() / flush() to completion, as SinkExt::send and
\* SinkExt::flush do: it polls once when it makes the call and then only after a
\* wake-up. bulk_out.poll_next registers the task's waker when the oldest transfer
\* has not completed (ready! returns Pending); cx.waker().wake_by_ref() wakes it at
\* once. The hardware completes every transfer successfully.
LiveAccepted == (TRANSFER_COUNT + 1) * SamplesPerTransfer

\* the chunks of the task: one transfer's worth, or two and a sample more
LiveChunks == {SamplesPerTransfer, 2 * SamplesPerTransfer + 1}

NoCaller == [op |-> "none", registered |-> FALSE, woken |-> FALSE]

\* what a poll leaves of the task: Ready returns from the call, Pending suspends it
AfterPoll(r) ==
    IF r.res = "pending"
    THEN [caller EXCEPT !.registered = (r.took = 0), !.woken = r.woke]
    ELSE NoCaller

\* the task calls ready(): the first poll is due
LiveCallReady ==
    /\ ~panicked
    /\ caller.op = "none"
    /\ caller' = [op |-> "ready", registered |-> FALSE, woken |-> TRUE]
    /\ UNCHANGED <<txvars, rxvars, ctlvars, codec, panicked, last>>

\* the task calls flush()
LiveCallFlush ==
    /\ ~panicked
    /\ caller.op = "none"
    /\ caller' = [op |-> "flush", registered |-> FALSE, woken |-> TRUE]
    /\ UNCHANGED <<txvars, rxvars, ctlvars, codec, panicked, last>>

\* the executor polls the woken task inside ready()
LivePollReady ==
    /\ ~panicked
    /\ caller.op = "ready"
    /\ caller.woken
    /\ LET r == poll_ready(TxState)
       IN  /\ SetTx(r.d)
           /\ last' = LastOf("ready", r, TxState)
           /\ caller' = AfterPoll(r)
    /\ UNCHANGED <<accepted, txFailed, flushed, panicked, rxvars, ctlvars, codec>>

\* the executor polls the woken task inside flush()
LivePollFlush ==
    /\ ~panicked
    /\ caller.op = "flush"
    /\ caller.woken
    /\ LET r == poll_flush(TxState)
       IN  /\ SetTx(r.d)
           /\ last' = LastOf("flush", r, TxState)
           /\ flushed' = IF r.res = "ok" THEN TRUE ELSE flushed
           /\ caller' = AfterPoll(r)
    /\ UNCHANGED <<accepted, txFailed, panicked, rxvars, ctlvars, codec>>

\* the task hands a chunk over, right after ready() returned Ok(())
LiveStartSend ==
    /\ caller.op = "none"
    /\ last.op = "ready"
    /\ last.res = "ok"
    /\ StartSendOf(LiveAccepted, LiveChunks)

\* the hardware completes the oldest unfinished transfer and wakes the registered
\* waker
LiveHwOk ==
    /\ ~panicked
    /\ OldestInflight(bulk_out) # 0
    /\ bulk_out' = [bulk_out EXCEPT ![OldestInflight(bulk_out)].st = "ok"]
    /\ caller' = IF caller.registered
                 THEN [caller EXCEPT !.registered = FALSE, !.woken = TRUE]
                 ELSE caller
    /\ UNCHANGED <<current_buffer, free_buffers, pending_buffers, accepted, submitted,
                   txFailed, flushed, panicked, last, rxvars, ctlvars, codec>>

NextTxLive ==
    \/ LiveCallReady
    \/ LiveCallFlush
    \/ LivePollReady
    \/ LivePollFlush
    \/ LiveStartSend
    \/ LiveHwOk

\* ------------------------------------------------------------- initial state
\* Device::from_interface: empty queues, an empty staging buffer, no free buffer
InitDevice ==
    /\ bulk_in = <<>>
    /\ bulk_out = <<>>
    /\ current_buffer = <<>>
    /\ free_buffers = <<>>
    /\ pending_buffers = <<>>
    /\ panicked = FALSE
    /\ accepted = <<>>
    /\ submitted = <<>>
    /\ txFailed = FALSE
    /\ flushed = FALSE
    /\ rxHw = <<>>
    /\ delivered = <<>>
    /\ last = [op |-> "none", res |-> "none", pre |-> 0, took |-> 0, subm |-> 0]
    /\ caller = NoCaller

Init ==
    /\ InitDevice
    /\ InitCtl
    /\ codec = NoCodec

\* the codec applied to every byte buffer of CodecInputs
InitCodec ==
    /\ InitDevice
    /\ InitCtl
    /\ \E bytes \in CodecInputs : codec = [NoCodec EXCEPT !.pc = "bytes", !.bytes = bytes]

SpecCodec == InitCodec /\ [][NextCodec]_vars

SpecCtl == Init /\ [][NextCtl]_vars

SpecTx == Init /\ [][NextTx]_vars

\* every submitted transfer completes, and a woken task is polled
SpecTxLive ==
    /\ Init
    /\ [][NextTxLive]_vars
    /\ WF_vars(LiveHwOk)
    /\ WF_vars(LivePollReady)
    /\ WF_vars(LivePollFlush)

SpecRx == Init /\ [][NextRx]_vars

SpecRxDevice == Init /\ [][NextRxDevice]_vars

\* both directions driven on one handle, interleaved; the device streams full
\* receive transfers
Next ==
    \/ TxPollReady
    \/ StartSendUpTo(BothAccepted)
    \/ TxPollFlush
    \/ TxPollClose
    \/ TxHwOk
    \/ TxHwErr
    \/ RxPollNext
    \/ RxHwOkUpTo(BothRxDone, {TRANSFER_SIZE})
    \/ RxHwErrUpTo(BothRxDone)

Spec == Init /\ [][Next]_vars

\* ------------------------------------------------------------- claims
IsOk(c) == c.st = "ok"

\* receive completions that polls have taken from the queue so far
RxTaken ==
    Len(rxHw) - Cardinality({i \in 1..Len(bulk_in) : bulk_in[i].st # "inflight"})

\* C1: when flush() returns Ok and no transmit completion has failed, the bytes of
\* the buffers handed to the transmit queue, concatenated in submission order, are
\* exactly the bytes of all accepted chunks, in order.
C1_TransmitFifo ==
    (last.op = "flush" /\ last.res = "ok" /\ ~txFailed)
        => Flatten(submitted) = accepted

\* flush() returned Ok with every transfer completed, after more than
\* TRANSFER_COUNT x TRANSFER_SIZE bytes in more than TRANSFER_COUNT buffers
C1_Witness ==
    /\ last.op = "flush" /\ last.res = "ok" /\ ~txFailed
    /\ QueuePending(bulk_out) = 0
    /\ Len(accepted) > TRANSFER_COUNT * TRANSFER_SIZE
    /\ Len(submitted) > TRANSFER_COUNT

\* C2: whenever flush() returns Ok, no transmit transfer is in flight and the
\* staging buffer and the backlog are empty.
C2_FlushLeavesNothingInFlight ==
    (last.op = "flush" /\ last.res = "ok")
        => /\ QueuePending(bulk_out) = 0
           /\ current_buffer = <<>>
           /\ pending_buffers = <<>>

\* C3: while no transmit completion has failed, the submitted buffers, then the
\* backlog (head first), then the staging buffer hold exactly the accepted bytes in
\* order: nothing is submitted twice, nothing overtakes earlier bytes.
C3_NoDupNoReorder ==
    ~txFailed =>
        Flatten(submitted) \o Flatten(pending_buffers) \o current_buffer = accepted

\* a buffer waits in the backlog behind a delayed completion, bytes are staged, and
\* the window has already been refilled after a completion
C3_Witness ==
    /\ ~txFailed
    /\ pending_buffers # <<>>
    /\ current_buffer # <<>>
    /\ Len(submitted) > TRANSFER_COUNT
    /\ bulk_out[1].st = "inflight"

\* C4: neither direction ever has more than TRANSFER_COUNT transfers in flight.
C4_WindowBound ==
    /\ QueuePending(bulk_in) <= TRANSFER_COUNT
    /\ QueuePending(bulk_out) <= TRANSFER_COUNT

\* both windows are full while a buffer waits in the backlog and a transmit
\* completion has failed
C4_Witness ==
    /\ QueuePending(bulk_in) = TRANSFER_COUNT
    /\ QueuePending(bulk_out) = TRANSFER_COUNT
    /\ pending_buffers # <<>>
    /\ txFailed

\* C5: ready() returns Ok only with a free slot in the transmit window; with a free
\* slot it returns Ok at once and takes no completion; from a full window it returns
\* Ok only after taking a completion and with the backlog empty.
C5_ReadyIffSlot ==
    last.op = "ready" =>
        /\ (last.res = "ok" => QueuePending(bulk_out) < TRANSFER_COUNT)
        /\ (last.pre < TRANSFER_COUNT =>
                last.res = "ok" /\ last.took = 0 /\ last.subm = 0)
        /\ ((last.pre = TRANSFER_COUNT /\ last.res = "ok") =>
                last.took = 1 /\ pending_buffers = <<>>)

\* ready() returned Ok from a full window whose backlog it had to drain first
C5_Witness ==
    /\ last.op = "ready" /\ last.res = "ok"
    /\ last.pre = TRANSFER_COUNT
    /\ last.took = 1
    /\ Len(submitted) > TRANSFER_COUNT + 1

\* C6: accept returns Ok or aborts, never an error; called with a full window it
\* aborts and leaves staging buffer, backlog, free pool and transmit queue as
\* they were; with a free slot it does not abort.
C6_AcceptAbortsWhenFull ==
    [][last'.op = "accept" =>
        /\ last'.res \in {"ok", "panic"}
        /\ (QueuePending(bulk_out) = TRANSFER_COUNT =>
                /\ last'.res = "panic"
                /\ panicked'
                /\ UNCHANGED <<current_buffer, pending_buffers, free_buffers, bulk_out,
                               submitted, accepted>>)
        /\ (QueuePending(bulk_out) < TRANSFER_COUNT => last'.res = "ok" /\ ~panicked')
      ]_vars

\* accept aborted on a full window, with bytes staged and a buffer in the backlog
C6_Witness ==
    /\ panicked
    /\ last.op = "accept" /\ last.res = "panic"
    /\ QueuePending(bulk_out) = TRANSFER_COUNT
    /\ pending_buffers # <<>>
    /\ current_buffer # <<>>

\* C7: a receive poll never ends the stream; a poll that meets a failed completion
\* at the head of the queue returns one error, delivers nothing and takes exactly
\* that completion; a later poll refills the window and delivers the successful
\* completion it finds at the head of the queue.
C7_RxErrorSurfaced ==
    [][last'.op = "poll" =>
        /\ last'.res \in {"pending", "batch", "err", "panic"}
        /\ ((bulk_in # <<>> /\ bulk_in[1].st = "err") =>
                /\ last'.res = "err"
                /\ last'.took = 1
                /\ delivered' = delivered
                /\ QueuePending(bulk_in') = TRANSFER_COUNT - 1
                /\ SubSeq(bulk_in', 1, Len(bulk_in) - 1) = Tail(bulk_in))
        /\ ((bulk_in # <<>> /\ bulk_in[1].st = "ok"
               /\ Len(bulk_in[1].data) % 2 = 0) =>
                /\ last'.res = "batch"
                /\ Len(delivered') = Len(delivered) + 1
                /\ QueuePending(bulk_in') = TRANSFER_COUNT)
      ]_vars

\* the first completion failed, and a batch of a transfer submitted after that
\* error has been delivered
C7_Witness ==
    /\ rxHw # <<>>
    /\ rxHw[1].st = "err"
    /\ last.op = "poll" /\ last.res = "batch"
    /\ Len(delivered) >= TRANSFER_COUNT

\* C8 as stated: at the end of every receive poll the receive window is full.
C8_WindowFullAfterEveryPoll ==
    last.op = "poll" => QueuePending(bulk_in) = TRANSFER_COUNT

\* C8 as amended: a receive poll that suspends or delivers a batch leaves exactly
\* TRANSFER_COUNT receive transfers in flight; one that reports a transport error
\* leaves TRANSFER_COUNT - 1.
C8_WindowFullUnlessError ==
    last.op = "poll" =>
        /\ (last.res \in {"pending", "batch"} => QueuePending(bulk_in) = TRANSFER_COUNT)
        /\ (last.res = "err" => QueuePending(bulk_in) = TRANSFER_COUNT - 1)

\* a batch was delivered from a window that an earlier error poll had left short
C8_Witness ==
    /\ last.op = "poll" /\ last.res = "batch"
    /\ last.pre = TRANSFER_COUNT - 1
    /\ QueuePending(bulk_in) = TRANSFER_COUNT

\* C9: the delivered batches are the successful completions taken so far, in
\* completion order, one batch per completion, each with the completion's bytes
\* (byte 2k-1 the first, byte 2k the second component of the k-th sample); only a
\* poll that aborted on an odd length has taken a completion it did not deliver.
C9_RxOrder ==
    LET okTaken == SelectSeq(SubSeq(rxHw, 1, RxTaken), IsOk)
    IN  /\ Len(delivered) =
            Len(okTaken) - (IF last.op = "poll" /\ last.res = "panic" THEN 1 ELSE 0)
        /\ \A i \in 1..Len(delivered) :
            /\ Len(okTaken[i].data) = 2 * Len(delivered[i])
            /\ \A k \in 1..Len(delivered[i]) :
                /\ delivered[i][k][1] \in -128..127
                /\ delivered[i][k][2] \in -128..127
                /\ I8ToByte(delivered[i][k][1]) = okTaken[i].data[2 * k - 1]
                /\ I8ToByte(delivered[i][k][2]) = okTaken[i].data[2 * k]

\* more batches than the window holds were delivered, after a failed completion,
\* and the first holds a sample with a negative component
C9_Witness ==
    /\ Len(delivered) >= TRANSFER_COUNT
    /\ \E i \in 1..Len(rxHw) : rxHw[i].st = "err"
    /\ delivered[1] # <<>>
    /\ delivered[1][1][2] < 0

\* C10: once flush() has returned Ok, a further flush() with no accept in between
\* hands no buffer to the transmit queue and returns no error while no completion
\* has failed; it returns Ok unless the oldest transfer is still in flight.
C10_IdempotentFlush ==
    [][(flushed /\ ~txFailed /\ last'.op = "flush") =>
        /\ last'.res \in {"ok", "pending"}
        /\ last'.subm = 0
        /\ submitted' = submitted
        /\ current_buffer' = <<>>
        /\ pending_buffers' = <<>>
        /\ ((bulk_out = <<>> \/ bulk_out[1].st # "inflight") => last'.res = "ok")
      ]_vars

\* a flush() on a handle that has sent data and has nothing staged or in flight
\* (an earlier flush returned Ok) returned Ok again
C10_Witness ==
    /\ flushed /\ ~txFailed
    /\ last.op = "flush" /\ last.res = "ok"
    /\ last.pre = 0 /\ last.subm = 0
    /\ submitted # <<>>

\* C11: the two directions do not touch each other's state: a receive poll leaves the
\* transmit queue, staging buffer, free pool, backlog and transmit histories as they
\* were, and ready/accept/flush leave the receive queue and the delivered batches as
\* they were; so under every interleaving the delivered batches are the successful
\* receive completions taken, in order, and the submitted buffers are the accepted
\* bytes, in order, as when each direction runs alone.
C11_DirectionIndependence ==
    /\ [](/\ delivered = [i \in 1..Len(delivered) |->
                            bytes_into_samples(
                                SelectSeq(SubSeq(rxHw, 1, RxTaken), IsOk)[i].data).val]
          /\ Len(delivered) = Len(SelectSeq(SubSeq(rxHw, 1, RxTaken), IsOk))
          /\ (~txFailed =>
                SubSeq(accepted, 1, Len(Flatten(submitted))) = Flatten(submitted)))
    /\ [][/\ (last'.op = "poll" =>
                UNCHANGED <<bulk_out, current_buffer, free_buffers, pending_buffers,
                            accepted, submitted, txFailed, flushed>>)
          /\ (last'.op \in {"ready", "accept", "flush"} =>
                UNCHANGED <<bulk_in, rxHw, delivered>>)
         ]_vars

\* a receive poll delivered a batch while the transmit window was full and a buffer
\* waited in the backlog
C11_Witness ==
    /\ last.op = "poll" /\ last.res = "batch"
    /\ delivered # <<>>
    /\ QueuePending(bulk_out) = TRANSFER_COUNT
    /\ pending_buffers # <<>>

\* C12: the sink's close operation aborts in whatever state it is invoked and leaves
\* the transmit state as it was: it returns neither success nor an error and does not
\* suspend.
C12_CloseAborts ==
    [][last'.op = "close" =>
        /\ last'.res = "panic"
        /\ panicked'
        /\ UNCHANGED <<bulk_out, current_buffer, free_buffers, pending_buffers,
                       submitted, accepted>>
      ]_vars

\* close aborted with bytes staged, a buffer in the backlog and transfers in flight
C12_Witness ==
    /\ panicked
    /\ last.op = "close" /\ last.res = "panic"
    /\ current_buffer # <<>>
    /\ pending_buffers # <<>>
    /\ bulk_out # <<>>
    /\ bulk_out[1].st = "inflight"

\* C13: a byte buffer of even length converts to exactly length / 2 samples, and
\* converting those samples back gives the original buffer byte for byte; so for the
\* conversions of lib.rs (signed components) and of common.rs (unsigned components).
C13_CodecRoundTrip ==
    /\ (codec.pc \in {"samples", "done"} =>
            /\ Len(codec.bytes) % 2 = 0
            /\ 2 * Len(codec.samples) = Len(codec.bytes))
    /\ (codec.pc = "done" =>
            /\ Len(codec.back) = Len(codec.bytes)
            /\ \A i \in 1..Len(codec.bytes) : codec.back[i] = codec.bytes[i])
    /\ (Len(codec.bytes) % 2 = 0 => codec.pc # "panic")

\* a buffer of the greatest length, with bytes on both sides of the sign bit, went
\* through bytes_into_samples and samples_as_bytes
C13_Witness ==
    /\ codec.pc = "done"
    /\ codec.fn = "bytes_into_samples"
    /\ Len(codec.bytes) = MaxCodecLen
    /\ codec.bytes[1] = 255
    /\ codec.bytes[2] = 127
    /\ codec.samples[1] = <<-1, 127>>
    /\ codec.back = codec.bytes

\* C14: wherever bytes become samples an odd length aborts: a receive poll that takes
\* a successful completion of odd length aborts and delivers no truncated batch.
C14_OddLengthFatal ==
    (/\ last.op = "poll"
     /\ last.took = 1
     /\ rxHw[RxTaken].st = "ok"
     /\ Len(rxHw[RxTaken].data) % 2 = 1)
        => (last.res = "panic" /\ panicked)

\* the gain operations, and the operations that read one byte
GainOps == {"set_lna_gain", "set_vga_gain"}

QueryOps == {"board_id", "board_rev", "set_lna_gain", "set_vga_gain"}

\* C15 as stated: set_lna_gain(v) / set_vga_gain(v) issue one IN request, code 19
\* resp. 20, that carries v in the value field and expects 1 byte.
C15_GainInValueField ==
    (ctl.op \in GainOps /\ ctl.pc \in {"await", "done"}) =>
        /\ Len(wire) = 1
        /\ wire[1].dir = "IN"
        /\ wire[1].request = (IF ctl.op = "set_lna_gain" THEN 19 ELSE 20)
        /\ wire[1].value = ctl.args[1]
        /\ wire[1].length = 1

\* C15 as amended: set_lna_gain(v) / set_vga_gain(v) issue one IN request, code 19
\* resp. 20, that carries v in the index field, 0 in the value field, and expects
\* 1 byte.
C15_GainInIndexField ==
    (ctl.op \in GainOps /\ ctl.pc \in {"await", "done"}) =>
        /\ Len(wire) = 1
        /\ wire[1].dir = "IN"
        /\ wire[1].request = (IF ctl.op = "set_lna_gain" THEN 19 ELSE 20)
        /\ wire[1].index = ctl.args[1]
        /\ wire[1].index \in 0..65535
        /\ wire[1].value = 0
        /\ wire[1].length = 1
        /\ wire[1].data = <<>>

\* set_lna_gain(65535) was answered by the device
C15_Witness ==
    /\ ctl.op = "set_lna_gain"
    /\ ctl.pc = "done"
    /\ ctl.args = <<65535>>
    /\ wire[1].index = 65535
    /\ wire[1].request = 19

\* C16: when the transfer succeeds and the response is not empty, a gain operation
\* succeeds iff the first response byte is 1; for any other first byte it returns
\* ParameterRejected naming the gain that was set.
C16_GainAcknowledged ==
    (/\ ctl.op \in GainOps
     /\ ctl.pc = "done"
     /\ ctl.resp.status = "ok"
     /\ ctl.resp.data # <<>>)
        => IF ctl.resp.data[1] = 1
           THEN ctl.result.tag = "Ok"
           ELSE /\ ctl.result.tag = "Param"
                /\ ctl.result.val =
                    (IF ctl.op = "set_lna_gain" THEN "Lna Gain" ELSE "Vga Gain")

\* set_vga_gain was answered with the byte 255 and returned ParameterRejected
C16_Witness ==
    /\ ctl.op = "set_vga_gain"
    /\ ctl.pc = "done"
    /\ ctl.resp = [data |-> <<255>>, status |-> "ok"]
    /\ ctl.result.tag = "Param"

\* C17: board_id, board_rev, set_lna_gain and set_vga_gain issue exactly one request
\* and return the first error: TransportError when the transfer failed, whatever data
\* came back, otherwise InvalidResponse when the response is empty, and neither of
\* the two when a byte came back.
C17_QueryErrors ==
    (ctl.op \in QueryOps /\ ctl.pc = "done") =>
        /\ Len(wire) = 1
        /\ wire[1].dir = "IN"
        /\ (ctl.resp.status = "err" => ctl.result.tag = "Transfer")
        /\ ((ctl.resp.status = "ok" /\ ctl.resp.data = <<>>) => ctl.result.tag = "Resp")
        /\ ((ctl.resp.status = "ok" /\ ctl.resp.data # <<>>) =>
                ctl.result.tag \in {"Ok", "Param"})

\* board_rev failed in transport although a byte came back
C17_Witness ==
    /\ ctl.op = "board_rev"
    /\ ctl.pc = "done"
    /\ ctl.resp = [data |-> <<4>>, status |-> "err"]
    /\ ctl.result.tag = "Transfer"
    /\ Len(wire) = 1

\* the bytes that name a BoardId resp. a BoardRev variant
BoardIdKnown == 0..4

BoardRevKnown == (0..5) \cup (129..133)

\* C18: decoding a reported byte is total; a known byte decodes to its own variant,
\* and an unknown byte decodes to an Unrecognized value that tells it from every
\* other unknown byte, so that the reported byte can be recovered.
C18_DecodingKeepsRawByte ==
    (ctl.op \in {"board_id", "board_rev"} /\ ctl.pc = "done" /\ ctl.result.tag = "Ok") =>
        LET b == ctl.resp.data[1]
            known == IF ctl.op = "board_id" THEN BoardIdKnown ELSE BoardRevKnown
            decoded(x) == IF ctl.op = "board_id" THEN BoardIdFrom(x) ELSE BoardRevFrom(x)
        IN  /\ ctl.result.val = decoded(b)
            /\ (b \in known =>
                    /\ ctl.result.val # "Unrecognized"
                    /\ \A x \in (0..255) \ {b} : decoded(x) # ctl.result.val)
            /\ (b \notin known =>
                    \A x \in (0..255) \ {b} : decoded(x) # ctl.result.val)

\* C19 as stated: set_freq(446, 68750) sends an OUT request, code 16, index 0,
\* value 0, with the payload BE 01 00 00 CE 0C 01 00.
C19_SetFreqScenarioCE ==
    (ctl.op = "set_freq" /\ ctl.args = <<446, 68750>>) =>
        /\ Len(wire) = 1
        /\ wire[1].dir = "OUT"
        /\ wire[1].request = 16
        /\ wire[1].index = 0
        /\ wire[1].value = 0
        /\ wire[1].data = <<190, 1, 0, 0, 206, 12, 1, 0>>

\* C19 as amended: set_freq(446, 68750) sends an OUT request, code 16, index 0,
\* value 0, with the payload BE 01 00 00 8E 0C 01 00: the little-endian bytes of 446
\* followed by those of 68750 = 0x00010C8E.
C19_SetFreqScenario ==
    (ctl.op = "set_freq" /\ ctl.args = <<446, 68750>>) =>
        /\ Len(wire) = 1
        /\ wire[1].dir = "OUT"
        /\ wire[1].request = 16
        /\ wire[1].index = 0
        /\ wire[1].value = 0
        /\ wire[1].data = <<190, 1, 0, 0, 142, 12, 1, 0>>

\* set_freq(446, 68750) was sent and the device accepted it
C19_Witness ==
    /\ ctl.op = "set_freq"
    /\ ctl.args = <<446, 68750>>
    /\ ctl.pc = "done"
    /\ ctl.result.tag = "Ok"
    /\ Len(wire[1].data) = 8

\* C20 as stated: set_baseband_filter_bandwidth(17000000) sends request code 7 with
\* index 0x0103 = 259, value 0x4240 = 16960 and an empty payload.
C20_BandwidthScenario4240 ==
    (ctl.op = "set_baseband_filter_bandwidth" /\ ctl.args = <<17000000>>) =>
        /\ Len(wire) = 1
        /\ wire[1].request = 7
        /\ wire[1].index = 259
        /\ wire[1].value = 16960
        /\ wire[1].data = <<>>

\* C20 as amended: set_baseband_filter_bandwidth(17000000) sends an OUT request, code
\* 7, with index 0x0103 = 259, value 0x6640 = 26176 (17000000 = 259 * 65536 + 26176)
\* and an empty payload.
C20_BandwidthScenario ==
    (ctl.op = "set_baseband_filter_bandwidth" /\ ctl.args = <<17000000>>) =>
        /\ Len(wire) = 1
        /\ wire[1].dir = "OUT"
        /\ wire[1].request = 7
        /\ wire[1].index = 259
        /\ wire[1].value = 26176
        /\ wire[1].data = <<>>

\* set_baseband_filter_bandwidth(17000000) was sent and the device accepted it
C20_Witness ==
    /\ ctl.op = "set_baseband_filter_bandwidth"
    /\ ctl.args = <<17000000>>
    /\ ctl.pc = "done"
    /\ ctl.result.tag = "Ok"
    /\ wire[1].index * 65536 + wire[1].value = 17000000

\* C21: set_baseband_filter_bandwidth(hz) sends one OUT request with an empty
\* payload whose index is hz div 2^16 and whose value is hz mod 2^16, both 16-bit
\* numbers, so that index * 2^16 + value = hz.
C21_BandwidthSplitLossless ==
    (ctl.op = "set_baseband_filter_bandwidth" /\ ctl.pc \in {"await", "done"}) =>
        LET hz == ctl.args[1]
        IN  /\ Len(wire) = 1
            /\ wire[1].dir = "OUT"
            /\ wire[1].data = <<>>
            /\ wire[1].index \in 0..65535
            /\ wire[1].value \in 0..65535
            /\ wire[1].index = hz \div 65536
            /\ wire[1].value = hz % 65536
            /\ wire[1].index * 65536 + wire[1].value = hz

\* a bandwidth with both halves non-zero and different was sent
C21_Witness ==
    /\ ctl.op = "set_baseband_filter_bandwidth"
    /\ ctl.pc = "done"
    /\ ctl.args = <<2147483647>>
    /\ wire[1].index = 32767
    /\ wire[1].value = 65535

\* the request code, the direction and the field that carries the argument, per
\* operation
RequestTable ==
    [reset |-> [code |-> 30, dir |-> "OUT"],
     board_id |-> [code |-> 14, dir |-> "IN"],
     board_rev |-> [code |-> 45, dir |-> "IN"],
     version |-> [code |-> 15, dir |-> "IN"],
     set_transceiver_mode |-> [code |-> 1, dir |-> "IN"],
     set_freq |-> [code |-> 16, dir |-> "OUT"],
     set_baseband_filter_bandwidth |-> [code |-> 7, dir |-> "OUT"],
     set_sample_rate |-> [code |-> 6, dir |-> "OUT"],
     set_lna_gain |-> [code |-> 19, dir |-> "IN"],
     set_vga_gain |-> [code |-> 20, dir |-> "IN"],
     amp_enable |-> [code |-> 17, dir |-> "OUT"]]

\* C22: every control operation issues one request with the code of the table, in
\* the direction of the protocol contracts; set_transceiver_mode carries the mode
\* number and amp_enable 0 or 1 in the value field.
C22_RequestCodes ==
    (ctl.op # "none" /\ ctl.pc \in {"await", "done"}) =>
        /\ Len(wire) = 1
        /\ wire[1].request = RequestTable[ctl.op].code
        /\ wire[1].dir = RequestTable[ctl.op].dir
        /\ (ctl.op \in {"set_transceiver_mode", "amp_enable"} =>
                /\ wire[1].value = ctl.args[1]
                /\ wire[1].index = 0)

\* amp_enable(true) and was answered
C22_Witness ==
    /\ ctl.op = "amp_enable"
    /\ ctl.pc = "done"
    /\ ctl.args = <<1>>
    /\ wire[1].value = 1
    /\ wire[1].request = 17
    /\ wire[1].dir = "OUT"

\* C23: also after a failed transmit completion the submitted buffers, then the
\* backlog (head first), then the staging buffer hold exactly the accepted bytes in
\* order: no later buffer reaches the transmit queue before a buffer of the
\* backlog, and no buffer is submitted twice.
C23_OrderSurvivesFailure ==
    Flatten(submitted) \o Flatten(pending_buffers) \o current_buffer = accepted

\* C24: while a buffer waits in the backlog the transmit window is full.
C24_BacklogOnlyWhileWindowFull ==
    pending_buffers # <<>> => QueuePending(bulk_out) = TRANSFER_COUNT

\* the failed completions waiting in the transmit queue
TxErrCount(q) == Cardinality({i \in 1..Len(q) : q[i].st = "err"})

\* s is an initial segment of t
IsPrefix(s, t) == Len(s) <= Len(t) /\ SubSeq(t, 1, Len(s)) = s

\* C25: a ready() or flush() poll that consumes a failed transmit completion
\* returns the error, removes that completion for good (the buffer is not
\* resubmitted and not put into the free pool) and submits no backlog buffer; a
\* poll returns an error only by consuming a failed completion, so a failure is
\* reported once.
C25_FailureSurfacedOnce ==
    [][ (last'.op \in {"ready", "flush"}) =>
          LET headFailed == bulk_out # <<>> /\ bulk_out[1].st = "err"
          IN  /\ (headFailed /\ last'.took = 1) =>
                    /\ last'.res = "err"
                    /\ TxErrCount(bulk_out') = TxErrCount(bulk_out) - 1
                    /\ \/ bulk_out' = Tail(bulk_out)
                       \/ /\ last'.op = "flush"
                          /\ current_buffer # <<>>
                          /\ bulk_out' = QueueSubmit(Tail(bulk_out), current_buffer)
                    /\ Len(free_buffers') <= Len(free_buffers)
                    /\ IsPrefix(pending_buffers, pending_buffers')
                    /\ Len(submitted') - Len(submitted)
                         = Len(bulk_out') - Len(Tail(bulk_out))
              /\ (last'.res = "err") => (headFailed /\ last'.took = 1) ]_vars

\* ready() returned the error of a failed transfer while a buffer waited in the
\* backlog
C25_Witness ==
    /\ last.op = "ready"
    /\ last.res = "err"
    /\ last.took = 1
    /\ pending_buffers # <<>>
    /\ QueuePending(bulk_out) = TRANSFER_COUNT - 1

Max(a, b) == IF a >= b THEN a ELSE b

\* no element occurs twice in s
NoRepeat(s) == \A i, j \in 1..Len(s) : s[i] = s[j] => i = j

\* the bytes of the transfers in a queue, oldest first
QueueBytes(q) == Flatten([i \in 1..Len(q) |-> q[i].data])

\* buffers handed over by accept and flush so far, to the queue or to the backlog
HandedOver == Len(submitted) + Len(pending_buffers)

\* buffers the handle holds: the staging buffer, the in-flight queue, the backlog
\* and the free pool
OwnedCount ==
    1 + QueuePending(bulk_out) + Len(pending_buffers) + Len(free_buffers)

\* C26: the bytes held in the in-flight queue, the backlog and the staging buffer
\* are pairwise distinct (no buffer is in two places), and in every step the
\* number of buffers held changes only by allocation and by the discard of a
\* failed transfer: each hand-over draws the replacement from the free pool, and
\* allocates only when the pool is empty; a reclaimed buffer enters the pool.
C26_SingleOwnership ==
    /\ [](NoRepeat(QueueBytes(bulk_out) \o Flatten(pending_buffers) \o current_buffer))
    /\ [][ LET k == HandedOver' - HandedOver
               alloc == Max(0, k - Len(free_buffers))
               polled == last'.op \in {"ready", "flush"} /\ last'.took = 1
               reclaimed == IF polled /\ last'.res # "err" THEN 1 ELSE 0
               discarded == IF polled /\ last'.res = "err" THEN 1 ELSE 0
           IN  /\ k >= 0
               /\ Len(free_buffers') = Len(free_buffers) - (k - alloc) + reclaimed
               /\ OwnedCount' = OwnedCount + alloc - discarded ]_vars

\* after a failed transfer was discarded, a buffer is staged, transfers are in
\* flight, a buffer waits in the backlog and the free pool holds a reclaimed
\* buffer
C26_Witness ==
    /\ txFailed
    /\ current_buffer # <<>>
    /\ bulk_out # <<>>
    /\ pending_buffers # <<>>
    /\ free_buffers # <<>>

\* C27: every buffer of the free pool holds zero bytes, the pool grows only by
\* one buffer in a poll that consumed a successful completion, and no byte is
\* handed to the transmit queue twice.
C27_FreePoolContent ==
    /\ [](\A i \in 1..Len(free_buffers) : free_buffers[i] = <<>>)
    /\ [](NoRepeat(Flatten(submitted)))
    /\ [][ Len(free_buffers') > Len(free_buffers) =>
              /\ last'.op \in {"ready", "flush"}
              /\ last'.took = 1
              /\ last'.res # "err"
              /\ bulk_out # <<>>
              /\ bulk_out[1].st = "ok"
              /\ Len(free_buffers') = Len(free_buffers) + 1 ]_vars

\* the pool holds two reclaimed buffers, an earlier reclaimed buffer has been
\* staged, filled and submitted again
C27_Witness ==
    /\ Len(free_buffers) >= 2
    /\ Len(submitted) > TRANSFER_COUNT + 1
    /\ last.op \in {"ready", "flush"}
    /\ last.took = 1
    /\ last.res = "ok"

\* C28: every buffer in the submission history and in the backlog holds between
\* 1 and TRANSFER_SIZE bytes; an accept that takes b bytes with s bytes staged
\* hands over (s + b) div TRANSFER_SIZE buffers, each of exactly TRANSFER_SIZE
\* bytes; a flush hands over the staging buffer, of 1 to TRANSFER_SIZE - 1 bytes,
\* if it is not empty and nothing otherwise; ready hands over nothing.
C28_SubmittedSizes ==
    /\ [](/\ \A i \in 1..Len(submitted) : Len(submitted[i]) \in 1..TRANSFER_SIZE
          /\ \A i \in 1..Len(pending_buffers) :
                Len(pending_buffers[i]) \in 1..TRANSFER_SIZE)
    /\ [][ LET k == HandedOver' - HandedOver
           IN  /\ (last'.op = "accept") =>
                    /\ k = (Len(current_buffer) + Len(accepted') - Len(accepted))
                              \div TRANSFER_SIZE
                    /\ \A i \in (Len(submitted) + 1)..Len(submitted') :
                            Len(submitted'[i]) = TRANSFER_SIZE
                    /\ \A i \in (Len(pending_buffers) + 1)..Len(pending_buffers') :
                            Len(pending_buffers'[i]) = TRANSFER_SIZE
               /\ (last'.op = "flush") =>
                    /\ k = (IF current_buffer # <<>> THEN 1 ELSE 0)
                    /\ (k = 1) =>
                          /\ Len(current_buffer) \in 1..(TRANSFER_SIZE - 1)
                          /\ \/ /\ pending_buffers' # <<>>
                                /\ pending_buffers'[Len(pending_buffers')]
                                      = current_buffer
                             \/ \E i \in (Len(submitted) + 1)..Len(submitted') :
                                    submitted'[i] = current_buffer
               /\ (last'.op \in {"ready", "close", "hw"}) => k = 0 ]_vars

\* one accept call has handed over three full buffers, two to the queue and one
\* to the backlog (a chunk of MaxChunk samples on top of a staged sample)
C28_Witness ==
    /\ last.op = "accept"
    /\ last.res = "ok"
    /\ last.subm = 2
    /\ Len(pending_buffers) = 1
    /\ QueuePending(bulk_out) = TRANSFER_COUNT

\* C29: whenever flush() returns Ok, also after failed transmit completions, the
\* staging buffer and the backlog are empty.
C29_FlushOkHandsEverythingOver ==
    (last.op = "flush" /\ last.res = "ok")
        => (current_buffer = <<>> /\ pending_buffers = <<>>)

\* C30: with every transfer completing successfully and the task polled whenever
\* it is woken, every ready() and every flush() the task is inside eventually
\* returns Ok(()), and by then the backlog is empty.
C30_TransmitProgress ==
    /\ (caller.op = "ready") ~>
          (caller.op = "none" /\ last.op = "ready" /\ last.res = "ok"
              /\ pending_buffers = <<>>)
    /\ (caller.op = "flush") ~>
          (caller.op = "none" /\ last.op = "flush" /\ last.res = "ok"
              /\ pending_buffers = <<>>)

\* the poll that submitted the backlog head has woken its own task: the task is
\* inside flush(), woken, with no waker registered, and the window is full
C30_Witness ==
    /\ caller.op = "flush"
    /\ caller.woken
    /\ ~caller.registered
    /\ last.op = "flush"
    /\ last.res = "pending"
    /\ last.took = 1
    /\ QueuePending(bulk_out) = TRANSFER_COUNT

\* C31: in every state the staging buffer holds fewer than TRANSFER_SIZE bytes; an
\* accept that brings the staged bytes to TRANSFER_SIZE or beyond hands buffers
\* over within the call and leaves the remainder modulo TRANSFER_SIZE staged; and
\* a flush leaves no byte staged.
C31_StagingNeverFull ==
    /\ [](Len(current_buffer) < TRANSFER_SIZE)
    /\ [][ /\ (last'.op = "accept" /\ last'.res = "ok") =>
                LET total == Len(current_buffer) + Len(accepted') - Len(accepted)
                IN  /\ Len(current_buffer') = total % TRANSFER_SIZE
                    /\ (total >= TRANSFER_SIZE) => HandedOver' > HandedOver
           /\ (last'.op = "flush") => current_buffer' = <<>> ]_vars

\* an accept has filled the staging buffer exactly: the full buffer was handed
\* over in that call and the staging buffer is empty again
C31_Witness ==
    /\ last.op = "accept"
    /\ last.res = "ok"
    /\ last.subm = 1
    /\ current_buffer = <<>>
    /\ Len(accepted) = TRANSFER_SIZE
    /\ Len(submitted) = 1

====
